---- MODULE Spec2Model ----
(***************************************************************************)
(* A model of update.py: one run of main(), which fetches the JetBrains    *)
(* product catalogue, keeps the products whose code is an IDECode member,  *)
(* and writes all-product-codes.json, build-numbers.md and builds.json.    *)
(*                                                                         *)
(* Text whose characters the program looks at (version strings, product    *)
(* codes, build numbers, ISO dates) is a tuple of one-character strings;   *)
(* a product's display name, which the program only copies, is a TLA+      *)
(* string or the tuple of its words.  A Python dict is the sequence of its *)
(* <<key, value>> items in insertion order.                                *)
(***************************************************************************)
EXTENDS Integers, Sequences, FiniteSets, TLC

VARIABLES
    pc,         \* where main() is
    catalog,    \* the JSON array the endpoint answers with
    products,   \* main: products
    ides,       \* main: ides
    pending,    \* _map_version_to_build_numbers: what ides.releases has yet to yield
    table,      \* _map_version_to_build_numbers: table
    matrix,     \* the dict _map_version_to_build_numbers returned
    codesFile,  \* all-product-codes.json
    tableFile,  \* build-numbers.md
    jsonFile,   \* builds.json
    error       \* the exception that ended the run, if one did

vars == <<pc, catalog, products, ides, pending, table, matrix,
          codesFile, tableFile, jsonFile, error>>

\* Python's None, which is no text: no tuple of characters equals it.
None == <<"None">>

----------------------------------------------------------------------------
(* Characters and numbers *)

Digits == <<"0", "1", "2", "3", "4", "5", "6", "7", "8", "9">>

Upper == <<"A", "B", "C", "D", "E", "F", "G", "H", "I", "J", "K", "L", "M",
           "N", "O", "P", "Q", "R", "S", "T", "U", "V", "W", "X", "Y", "Z">>

Lower == <<"a", "b", "c", "d", "e", "f", "g", "h", "i", "j", "k", "l", "m",
           "n", "o", "p", "q", "r", "s", "t", "u", "v", "w", "x", "y", "z">>

IsDigit(c) == \E i \in 1..10 : Digits[i] = c

DigitVal(c) == (CHOOSE i \in 1..10 : Digits[i] = c) - 1

\* ord(c), for the characters of codes, versions and dates.
Ord(c) ==
    IF c = "-" THEN 45
    ELSE IF c = "." THEN 46
    ELSE IF \E i \in 1..10 : Digits[i] = c
         THEN 47 + (CHOOSE i \in 1..10 : Digits[i] = c)
    ELSE IF \E i \in 1..26 : Upper[i] = c
         THEN 64 + (CHOOSE i \in 1..26 : Upper[i] = c)
    ELSE 96 + (CHOOSE i \in 1..26 : Lower[i] = c)

\* int(s) for a string of decimal digits.
RECURSIVE IntOf(_)
IntOf(s) ==
    IF s = <<>> THEN 0
    ELSE IntOf(SubSeq(s, 1, Len(s) - 1)) * 10 + DigitVal(s[Len(s)])

AllDigits(s) == \A i \in 1..Len(s) : IsDigit(s[i])

\* s.split(sep) for a one-character separator.
RECURSIVE Split(_, _)
Split(s, sep) ==
    IF \A i \in 1..Len(s) : s[i] # sep THEN <<s>>
    ELSE LET k == CHOOSE i \in 1..Len(s) :
                      s[i] = sep /\ \A j \in 1..(i - 1) : s[j] # sep
         IN  <<SubSeq(s, 1, k - 1)>> \o Split(SubSeq(s, k + 1, Len(s)), sep)

\* a < b for two Python strings: by code point, a proper prefix first.
RECURSIVE StrLess(_, _)
StrLess(a, b) ==
    IF b = <<>> THEN FALSE
    ELSE IF a = <<>> THEN TRUE
    ELSE IF Ord(a[1]) # Ord(b[1]) THEN Ord(a[1]) < Ord(b[1])
    ELSE StrLess(Tail(a), Tail(b))

----------------------------------------------------------------------------
(* dict *)

DictHas(d, k) == \E i \in 1..Len(d) : d[i][1] = k

\* d.get(k)
DictGet(d, k) ==
    IF DictHas(d, k) THEN d[CHOOSE i \in 1..Len(d) : d[i][1] = k][2] ELSE None

\* d[k] = v: a new key goes last, a key already there keeps its place.
DictSet(d, k, v) ==
    IF DictHas(d, k)
    THEN [i \in 1..Len(d) |-> IF d[i][1] = k THEN <<k, v>> ELSE d[i]]
    ELSE Append(d, <<k, v>>)

----------------------------------------------------------------------------
(* IDECode *)

CL  == <<"C", "L">>
GO  == <<"G", "O">>
IIC == <<"I", "I", "C">>
IIU == <<"I", "I", "U">>
PCC == <<"P", "C", "C">>
PCP == <<"P", "C", "P">>
PS  == <<"P", "S">>
RC  == <<"R", "C">>
RD  == <<"R", "D">>
RM  == <<"R", "M">>
RR  == <<"R", "R">>
RS  == <<"R", "S">>
WS  == <<"W", "S">>

\* IDECode.__members__ in declaration order; a value is its words.
IDECodeMembers ==
    << [name |-> CL,  value |-> <<"CLion">>],
       [name |-> GO,  value |-> <<"GoLand">>],
       [name |-> IIC, value |-> <<"IntelliJ", "IDEA", "Community", "Edition">>],
       [name |-> IIU, value |-> <<"IntelliJ", "IDEA", "Ultimate">>],
       [name |-> PCC, value |-> <<"PyCharm", "Community", "Edition">>],
       [name |-> PCP, value |-> <<"PyCharm", "Professional", "Edition">>],
       [name |-> PS,  value |-> <<"PhpStorm">>],
       [name |-> RC,  value |-> <<"ReSharper", "C++">>],
       [name |-> RD,  value |-> <<"Rider">>],
       [name |-> RM,  value |-> <<"RubyMine">>],
       [name |-> RR,  value |-> <<"RustRover">>],
       [name |-> RS,  value |-> <<"ReSharper">>],
       [name |-> WS,  value |-> <<"WebStorm">> ] >>

IsMember(code) == \E i \in 1..Len(IDECodeMembers) : IDECodeMembers[i].name = code

\* IDECode.get(member): the member, or None for a name that is none.
IDECodeGet(member) == IF IsMember(member) THEN member ELSE None

----------------------------------------------------------------------------
(* packaging.version.Version, for the strings made of digits, "." and the  *)
(* letters a, e, l, s, t, v.  The only pre-release, post-release or dev     *)
(* keyword these letters spell is "a", so of VERSION_PATTERN such a string *)
(* can only match                                                          *)
(*     v? [0-9]+(\.[0-9]+)* ( \.? a \.? [0-9]* )?                          *)

\* The index after the digits that start at i.
RECURSIVE DigitsEnd(_, _)
DigitsEnd(s, i) ==
    IF i <= Len(s) /\ IsDigit(s[i]) THEN DigitsEnd(s, i + 1) ELSE i

\* The index after the release segment [0-9]+(\.[0-9]+)* that starts at i,
\* 0 when none does.
RECURSIVE ReleaseEnd(_, _)
ReleaseEnd(s, i) ==
    LET j == DigitsEnd(s, i)
    IN  IF j = i THEN 0
        ELSE IF j + 1 <= Len(s) /\ s[j] = "." /\ IsDigit(s[j + 1])
             THEN ReleaseEnd(s, j + 1)
             ELSE j

\* The index after the pre-release segment \.?a\.?[0-9]* that starts at i,
\* i itself when none does.
PreEnd(s, i) ==
    LET l == IF i <= Len(s) /\ s[i] = "." THEN i + 1 ELSE i
    IN  IF l <= Len(s) /\ s[l] = "a"
        THEN LET n == IF l + 1 <= Len(s) /\ s[l + 1] = "." THEN l + 2 ELSE l + 1
             IN  DigitsEnd(s, n)
        ELSE i

\* The pre-release number of a pre-release segment that starts at i
\* (0 when it spells none).
PreNumber(s, i) ==
    LET l == IF s[i] = "." THEN i + 1 ELSE i
        n == IF l + 1 <= Len(s) /\ s[l + 1] = "." THEN l + 2 ELSE l + 1
    IN  IntOf(SubSeq(s, n, DigitsEnd(s, n) - 1))

VersionStart(s) == IF Len(s) >= 1 /\ s[1] = "v" THEN 2 ELSE 1

\* Validity by a match of the pattern that is not anchored at the end: a
\* string that only starts as a version would do.
IsValidVersionPrefix(s) == ReleaseEnd(s, VersionStart(s)) # 0

\* Whether Version(s) is constructed (it raises InvalidVersion otherwise).
IsValidVersion(s) ==
    LET r == ReleaseEnd(s, VersionStart(s))
    IN  r # 0 /\ PreEnd(s, r) = Len(s) + 1

\* The release tuple without its trailing zeros, as Version._key holds it.
RECURSIVE StripTrailingZeros(_)
StripTrailingZeros(r) ==
    IF r # <<>> /\ r[Len(r)] = 0
    THEN StripTrailingZeros(SubSeq(r, 1, Len(r) - 1))
    ELSE r

\* Version(s)._key for a valid s: the release, whether s is a final release
\* (no pre-release segment), and the pre-release number of one that is not.
VersionKey(s) ==
    LET b   == VersionStart(s)
        r   == ReleaseEnd(s, b)
        seg == Split(SubSeq(s, b, r - 1), ".")
    IN  [release |-> StripTrailingZeros([i \in 1..Len(seg) |-> IntOf(seg[i])]),
         final   |-> r = Len(s) + 1,
         pre     |-> IF r = Len(s) + 1 THEN 0 ELSE PreNumber(s, r)]

\* a < b for two tuples of integers, as Python compares tuples.
RECURSIVE TupleLess(_, _)
TupleLess(a, b) ==
    IF b = <<>> THEN FALSE
    ELSE IF a = <<>> THEN TRUE
    ELSE IF a[1] # b[1] THEN a[1] < b[1]
    ELSE TupleLess(Tail(a), Tail(b))

\* The order of the version strings as text, which a sort without
\* key = Version would use.
VersionLessAsText(a, b) == StrLess(a, b)

\* Version(a) < Version(b): by release, then a pre-release before the final
\* release and before a pre-release of a higher number.
VersionLess(a, b) ==
    LET ka == VersionKey(a)
        kb == VersionKey(b)
    IN  IF ka.release # kb.release THEN TupleLess(ka.release, kb.release)
        ELSE IF ka.final THEN FALSE
        ELSE IF kb.final THEN TRUE
        ELSE ka.pre < kb.pre

----------------------------------------------------------------------------
(* datetime.date, as pydantic reads it from and writes it to JSON *)

IsLeap(y) == (y % 4 = 0 /\ y % 100 # 0) \/ y % 400 = 0

DaysInMonth(y, m) ==
    IF m = 2 THEN (IF IsLeap(y) THEN 29 ELSE 28)
    ELSE IF m \in {4, 6, 9, 11} THEN 30
    ELSE 31

\* Whether s is YYYY-MM-DD.
IsIsoShape(s) ==
    /\ Len(s) = 10
    /\ s[5] = "-" /\ s[8] = "-"
    /\ \A i \in {1, 2, 3, 4, 6, 7, 9, 10} : IsDigit(s[i])

DateFields(s) ==
    [year  |-> IntOf(SubSeq(s, 1, 4)),
     month |-> IntOf(SubSeq(s, 6, 7)),
     day   |-> IntOf(SubSeq(s, 9, 10))]

\* Whether the field `date: date` accepts the JSON string s.
IsValidDate(s) ==
    /\ IsIsoShape(s)
    /\ LET d == DateFields(s)
       IN  /\ d.year >= 1
           /\ d.month \in 1..12
           /\ d.day \in 1..DaysInMonth(d.year, d.month)

\* n in decimal, zero-padded to w digits.
RECURSIVE Padded(_, _)
Padded(n, w) ==
    IF w = 0 THEN <<>> ELSE Append(Padded(n \div 10, w - 1), Digits[(n % 10) + 1])

\* date.isoformat(), which is how model_dump_json writes a date.
IsoFormat(d) ==
    Padded(d.year, 4) \o <<"-">> \o Padded(d.month, 2) \o <<"-">> \o Padded(d.day, 2)

----------------------------------------------------------------------------
(* Release, Product, IDEList *)

\* Whether Release(**e) validates.
IsValidRelease(e) ==
    /\ {"version", "build", "date"} \subseteq DOMAIN e
    /\ IsValidDate(e.date)

\* Release(**e)
Release(e) ==
    [version |-> e.version, build |-> e.build, date |-> DateFields(e.date)]

\* Whether Product(**e) validates.
IsValidProduct(e) ==
    /\ {"code", "name", "releases"} \subseteq DOMAIN e
    /\ \A i \in 1..Len(e.releases) : IsValidRelease(e.releases[i])

\* Product(**e)
Product(e) ==
    [code     |-> e.code,
     name     |-> e.name,
     releases |-> [i \in 1..Len(e.releases) |-> Release(e.releases[i])]]

\* Whether iterating IDEList.releases raises KeyError: IDECode[ide.code] does
\* for a code that is no member.
ReleasesRaises(l) == \E i \in 1..Len(l) : ~IsMember(l[i].code)

\* IDEList.releases: the (code, release) pairs, product by product.
RECURSIVE Releases(_)
Releases(l) ==
    IF l = <<>> THEN <<>>
    ELSE [i \in 1..Len(l[1].releases) |-> <<l[1].code, l[1].releases[i]>>]
         \o Releases(Tail(l))

----------------------------------------------------------------------------
(* _update_all_codes *)

\* s with x put before the first element whose code is greater: one step of
\* the stable sort by product.code.
InsertByCode(s, x) ==
    IF \E i \in 1..Len(s) : StrLess(x.code, s[i].code)
    THEN LET k == CHOOSE i \in 1..Len(s) :
                      /\ StrLess(x.code, s[i].code)
                      /\ \A j \in 1..(i - 1) : ~StrLess(x.code, s[j].code)
         IN  SubSeq(s, 1, k - 1) \o <<x>> \o SubSeq(s, k, Len(s))
    ELSE Append(s, x)

\* codes_and_names.sort(key = lambda product: product.code)
RECURSIVE SortByCode(_)
SortByCode(s) ==
    IF s = <<>> THEN <<>>
    ELSE InsertByCode(SortByCode(SubSeq(s, 1, Len(s) - 1)), s[Len(s)])

\* codes_and_names without the sort.
CodesAndNamesUnsorted(ps) ==
    [i \in 1..Len(ps) |-> [code |-> ps[i].code, name |-> ps[i].name]]

\* codes_and_names, as _update_all_codes dumps it.
CodesAndNames(ps) ==
    SortByCode([i \in 1..Len(ps) |-> [code |-> ps[i].code, name |-> ps[i].name]])

----------------------------------------------------------------------------
(* _map_version_to_build_numbers *)

\* The body of the loop without `if build is None: continue`.
MapInsertKeepsNone(t, code, release) ==
    LET t1 == IF DictHas(t, release.version) THEN t
              ELSE DictSet(t, release.version, <<>>)
    IN  DictSet(t1, release.version,
                DictSet(DictGet(t1, release.version), code, release.build))

\* The body of the loop with the row made before the test for None.
MapInsertRowFirst(t, code, release) ==
    LET t1 == IF DictHas(t, release.version) THEN t
              ELSE DictSet(t, release.version, <<>>)
    IN  IF release.build = None THEN t1
        ELSE DictSet(t1, release.version,
                     DictSet(DictGet(t1, release.version), code, release.build))

\* The body of the loop with setdefault for the assignment: a cell that has
\* a build number keeps it.
MapInsertFirstWins(t, code, release) ==
    IF release.build = None THEN t
    ELSE LET t1  == IF DictHas(t, release.version) THEN t
                    ELSE DictSet(t, release.version, <<>>)
             row == DictGet(t1, release.version)
         IN  IF DictHas(row, code) THEN t1
             ELSE DictSet(t1, release.version, DictSet(row, code, release.build))

\* The body of the loop for one (code, release) pair.
MapInsert(t, code, release) ==
    IF release.build = None THEN t
    ELSE LET t1 == IF DictHas(t, release.version) THEN t
                   ELSE DictSet(t, release.version, <<>>)
         IN  DictSet(t1, release.version,
                     DictSet(DictGet(t1, release.version), code, release.build))

\* s with item x put before the first item of a lesser Version: one step of
\* the stable descending sort.
InsertByVersion(s, x) ==
    IF \E i \in 1..Len(s) : VersionLess(s[i][1], x[1])
    THEN LET k == CHOOSE i \in 1..Len(s) :
                      /\ VersionLess(s[i][1], x[1])
                      /\ \A j \in 1..(i - 1) : ~VersionLess(s[j][1], x[1])
         IN  SubSeq(s, 1, k - 1) \o <<x>> \o SubSeq(s, k, Len(s))
    ELSE Append(s, x)

\* sorted(table.items(), reverse = True, key = lambda item: Version(item[0]))
\* when every key is a valid version.
RECURSIVE SortedItems(_)
SortedItems(t) ==
    IF t = <<>> THEN <<>>
    ELSE InsertByVersion(SortedItems(SubSeq(t, 1, Len(t) - 1)), t[Len(t)])

\* Whether the sort raises InvalidVersion: the key function is called on
\* every item.
SortRaises(t) == \E i \in 1..Len(t) : ~IsValidVersion(t[i][1])

\* The key the sort raises on: the first invalid one.
Offending(t) ==
    t[CHOOSE i \in 1..Len(t) :
          /\ ~IsValidVersion(t[i][1])
          /\ \A j \in 1..(i - 1) : IsValidVersion(t[j][1])][1]

----------------------------------------------------------------------------
(* _construct_ide_table, _table_notes, _update_json *)

Columns ==
    <<"Version">> \o [i \in 1..Len(IDECodeMembers) |-> IDECodeMembers[i].name]

\* The rows with the cells looked up by the members' values.
TableRowsByValue(m) ==
    [i \in 1..Len(m) |->
        <<m[i][1]>> \o [j \in 1..Len(IDECodeMembers) |->
                           DictGet(m[i][2], IDECodeMembers[j].value)]]

\* The rows table.loc[index] is given, for the matrix m.
TableRows(m) ==
    [i \in 1..Len(m) |->
        <<m[i][1]>> \o [j \in 1..Len(IDECodeMembers) |->
                           DictGet(m[i][2], IDECodeMembers[j].name)]]

\* The frame _construct_ide_table returns.
ConstructIdeTable(m) == [columns |-> Columns, rows |-> TableRows(m)]

\* words joined by sep
RECURSIVE Join(_, _)
Join(words, sep) ==
    IF Len(words) <= 1 THEN words
    ELSE <<words[1], sep>> \o Join(Tail(words), sep)

\* _table_notes: per member '<b>code</b>: name' with its white space
\* replaced by &nbsp;, the items joined by ' | '.
TableNotes ==
    Join([i \in 1..Len(IDECodeMembers) |->
             Join(<< <<"<b>", IDECodeMembers[i].name, "</b>:">> >>
                  \o IDECodeMembers[i].value, "&nbsp;")],
         " | ")

\* json.loads(release.model_dump_json())
ReleaseAsJson(r) ==
    [version |-> r.version, build |-> r.build, date |-> IsoFormat(r.date)]

\* code_to_releases with the releases of no build number left out, as the
\* matrix leaves them out.
RECURSIVE CodeToReleasesWithBuild(_)
CodeToReleasesWithBuild(rs) ==
    IF rs = <<>> THEN <<>>
    ELSE LET d    == CodeToReleasesWithBuild(SubSeq(rs, 1, Len(rs) - 1))
             code == rs[Len(rs)][1]
             old  == IF DictHas(d, code) THEN DictGet(d, code) ELSE <<>>
         IN  IF rs[Len(rs)][2].build = None THEN d
             ELSE DictSet(d, code, Append(old, ReleaseAsJson(rs[Len(rs)][2])))

\* code_to_releases after the loop over the pairs rs.
RECURSIVE CodeToReleases(_)
CodeToReleases(rs) ==
    IF rs = <<>> THEN <<>>
    ELSE LET d    == CodeToReleases(SubSeq(rs, 1, Len(rs) - 1))
             code == rs[Len(rs)][1]
             old  == IF DictHas(d, code) THEN DictGet(d, code) ELSE <<>>
         IN  DictSet(d, code, Append(old, ReleaseAsJson(rs[Len(rs)][2])))

----------------------------------------------------------------------------
(* The catalogues the endpoint may answer with *)

\* A catalogue's size is the number of its products plus the number of
\* their releases.
MaxCatalogSize == 4
MaxOrderReleases == 3

AC == <<"A", "C">>

V_2023_3   == <<"2", "0", "2", "3", ".", "3">>
V_2024_1   == <<"2", "0", "2", "4", ".", "1">>
V_2024_9   == <<"2", "0", "2", "4", ".", "9">>
V_2024_10  == <<"2", "0", "2", "4", ".", "1", "0">>
V_2024_1_0 == <<"2", "0", "2", "4", ".", "1", ".", "0">>
V_2024_01  == <<"2", "0", "2", "4", ".", "0", "1">>
V_2024_1a  == <<"2", "0", "2", "4", ".", "1", "a">>
V_v2024_1  == <<"v", "2", "0", "2", "4", ".", "1">>
V_2024_dot == <<"2", "0", "2", "4", ".">>
V_latest   == <<"l", "a", "t", "e", "s", "t">>

B_233_100 == <<"2", "3", "3", ".", "1", "0", "0">>
B_233_200 == <<"2", "3", "3", ".", "2", "0", "0">>
B_241_1   == <<"2", "4", "1", ".", "1">>

D_2023_11_01 == <<"2", "0", "2", "3", "-", "1", "1", "-", "0", "1">>
D_2024_02_01 == <<"2", "0", "2", "4", "-", "0", "2", "-", "0", "1">>
D_2024_13_01 == <<"2", "0", "2", "4", "-", "1", "3", "-", "0", "1">>

RawRelease(v, b, d) == [version |-> v, build |-> b, date |-> d]

\* Releases of one, two and no build number, of a version that is none, and
\* of a date that is none.
ReleasePool ==
    { RawRelease(V_2023_3, B_233_100, D_2023_11_01),
      RawRelease(V_2023_3, B_233_200, D_2023_11_01),
      RawRelease(V_2023_3, None,      D_2023_11_01),
      RawRelease(V_2024_1, B_241_1,   D_2024_02_01),
      RawRelease(V_latest, B_241_1,   D_2024_02_01),
      RawRelease(V_2024_1, B_241_1,   D_2024_13_01) }

\* Two members of IDECode and a code that is none.
FetchedCodes == {AC, IIC, IIU}

FetchedName(code) ==
    IF code = AC THEN "AppCode"
    ELSE IF code = IIC THEN "IntelliJ IDEA Community Edition"
    ELSE "IntelliJ IDEA Ultimate"

\* Versions that differ in how they are spelt, in a multi-digit segment, in
\* being a pre-release, and in being a version at all.
OrderPool ==
    { RawRelease(v, B_241_1, D_2024_02_01) :
          v \in {V_2024_1, V_2024_9, V_2024_10, V_2024_1_0, V_2024_01,
                 V_2024_1a, V_v2024_1, V_2024_dot, V_latest} }
    \cup { RawRelease(V_latest, None,    D_2024_02_01),
           RawRelease(V_2024_1, B_241_1, D_2024_13_01) }

\* The products of a code in codes and of exactly k releases of pool.
RawProducts(codes, pool, k) ==
    { [code |-> c, name |-> FetchedName(c), releases |-> rs] :
          c \in codes, rs \in [1..k -> pool] }

\* The catalogues of size n at most.
RECURSIVE CatalogsWithin(_)
CatalogsWithin(n) ==
    {<<>>} \cup
    UNION { { <<p>> \o rest : p \in RawProducts(FetchedCodes, ReleasePool, k),
                              rest \in CatalogsWithin(n - 1 - k) } :
            k \in 0..(n - 1) }

Catalogs == CatalogsWithin(MaxCatalogSize)

\* One product, of IIU, of MaxOrderReleases releases at most.
OrderCatalogs ==
    UNION { { <<p>> : p \in RawProducts({IIU}, OrderPool, k) } :
            k \in 0..MaxOrderReleases }

----------------------------------------------------------------------------
(* main *)

NoFile == [written |-> FALSE, content |-> <<>>]

File(content) == [written |-> TRUE, content |-> content]

NoError == [kind |-> "", detail |-> <<>>]

Start ==
    /\ pc = "start"
    /\ products = <<>>
    /\ ides = <<>>
    /\ pending = <<>>
    /\ table = <<>>
    /\ matrix = <<>>
    /\ codesFile = NoFile
    /\ tableFile = NoFile
    /\ jsonFile = NoFile
    /\ error = NoError

Init == catalog \in Catalogs /\ Start

InitOrder == catalog \in OrderCatalogs /\ Start

Raise(kind, detail) ==
    /\ pc' = "failed"
    /\ error' = [kind |-> kind, detail |-> detail]

\* _retrieve_product_list: the request fails, or an element of the answer
\* does not validate, or products is the answer's elements as Products.
RetrieveProductList ==
    /\ pc = "start"
    /\ \/ /\ Raise("RequestException", <<>>)
          /\ UNCHANGED products
       \/ /\ \E i \in 1..Len(catalog) : ~IsValidProduct(catalog[i])
          /\ Raise("ValidationError", <<>>)
          /\ UNCHANGED products
       \/ /\ \A i \in 1..Len(catalog) : IsValidProduct(catalog[i])
          /\ products' = [i \in 1..Len(catalog) |-> Product(catalog[i])]
          /\ pc' = "filter"
          /\ UNCHANGED error
    /\ UNCHANGED <<catalog, ides, pending, table, matrix,
                   codesFile, tableFile, jsonFile>>

\* ides without the filter.
KnownProductsUnfiltered(ps) == ps

\* ides = IDEList([product for product in products if IDECode.get(product.code) is not None])
KnownProducts(ps) == SelectSeq(ps, LAMBDA p : IDECodeGet(p.code) # None)

Filter ==
    /\ pc = "filter"
    /\ ides' = KnownProducts(products)
    /\ pc' = "all_codes"
    /\ UNCHANGED <<catalog, products, pending, table, matrix,
                   codesFile, tableFile, jsonFile, error>>

\* _update_all_codes(products)
UpdateAllCodes ==
    /\ pc = "all_codes"
    /\ codesFile' = File(CodesAndNames(products))
    /\ pc' = "table"
    /\ UNCHANGED <<catalog, products, ides, pending, table, matrix,
                   tableFile, jsonFile, error>>

\* _update_table calls _construct_ide_table, which calls
\* _map_version_to_build_numbers: table = {} and the loop begins.
MapBegin ==
    /\ pc = "table"
    /\ IF ReleasesRaises(ides)
       THEN Raise("KeyError", <<>>) /\ UNCHANGED <<pending, table>>
       ELSE /\ pending' = Releases(ides)
            /\ table' = <<>>
            /\ pc' = "map_loop"
            /\ UNCHANGED error
    /\ UNCHANGED <<catalog, products, ides, matrix,
                   codesFile, tableFile, jsonFile>>

\* One turn of the loop.
MapStep ==
    /\ pc = "map_loop"
    /\ pending # <<>>
    /\ table' = MapInsert(table, Head(pending)[1], Head(pending)[2])
    /\ pending' = Tail(pending)
    /\ UNCHANGED <<pc, catalog, products, ides, matrix,
                   codesFile, tableFile, jsonFile, error>>

\* The sort after the loop, and the return.
MapSort ==
    /\ pc = "map_loop"
    /\ pending = <<>>
    /\ \/ /\ SortRaises(table)
          /\ Raise("InvalidVersion", Offending(table))
          /\ UNCHANGED matrix
       \/ /\ ~SortRaises(table)
          /\ matrix' = SortedItems(table)
          /\ pc' = "render"
          /\ UNCHANGED error
    /\ UNCHANGED <<catalog, products, ides, pending, table,
                   codesFile, tableFile, jsonFile>>

\* The rest of _update_table: the frame, and the file.
UpdateTable ==
    /\ pc = "render"
    /\ tableFile' = File([notes |-> TableNotes, table |-> ConstructIdeTable(matrix)])
    /\ pc' = "json"
    /\ UNCHANGED <<catalog, products, ides, pending, table, matrix,
                   codesFile, jsonFile, error>>

\* _update_json(ides)
UpdateJson ==
    /\ pc = "json"
    /\ IF ReleasesRaises(ides)
       THEN Raise("KeyError", <<>>) /\ UNCHANGED jsonFile
       ELSE /\ jsonFile' = File(CodeToReleases(Releases(ides)))
            /\ pc' = "done"
            /\ UNCHANGED error
    /\ UNCHANGED <<catalog, products, ides, pending, table, matrix,
                   codesFile, tableFile>>

Next ==
    \/ RetrieveProductList
    \/ Filter
    \/ UpdateAllCodes
    \/ MapBegin
    \/ MapStep
    \/ MapSort
    \/ UpdateTable
    \/ UpdateJson

Spec == Init /\ [][Next]_vars

SpecOrder == InitOrder /\ [][Next]_vars

----------------------------------------------------------------------------
(* What the claims speak of *)

\* The (code, release) pairs _map_version_to_build_numbers and _update_json
\* are given.
Input == Releases(ides)

\* _map_version_to_build_numbers has returned.
MatrixReturned == pc \in {"render", "json", "done"}

HasCell(m, v, c) ==
    \E i \in 1..Len(m) : m[i][1] = v /\ \E j \in 1..Len(m[i][2]) : m[i][2][j][1] = c

\* The value of the cell (v, c) of m, None when m has no such cell.
CellOrNone(m, v, c) ==
    IF HasCell(m, v, c)
    THEN LET i == CHOOSE i \in 1..Len(m) : m[i][1] = v
             j == CHOOSE j \in 1..Len(m[i][2]) : m[i][2][j][1] = c
         IN  m[i][2][j][2]
    ELSE None

SamePair(k, l) ==
    Input[k][1] = Input[l][1] /\ Input[k][2].version = Input[l][2].version

----------------------------------------------------------------------------
(* C1 *)

\* C1 as stated: in the matrix returned, every input release with a build
\* number has a cell (version, identity) that is not None, and no input
\* release without one has a cell (version, identity).
C1_AsStated ==
    MatrixReturned =>
        \A k \in 1..Len(Input) :
            LET c == Input[k][1]
                r == Input[k][2]
            IN  IF r.build # None
                THEN HasCell(matrix, r.version, c) /\ CellOrNone(matrix, r.version, c) # None
                ELSE ~HasCell(matrix, r.version, c)

\* C1 amended: in the matrix returned, every input release with a build
\* number has a cell (version, identity) that is not None, and every cell
\* (version, identity) is that of an input release with a build number: a
\* release without one has a cell only when another release of its identity
\* and version has a build number.
C1_CellsOfBuilds ==
    MatrixReturned =>
        /\ \A k \in 1..Len(Input) :
               Input[k][2].build # None =>
                   /\ HasCell(matrix, Input[k][2].version, Input[k][1])
                   /\ CellOrNone(matrix, Input[k][2].version, Input[k][1]) # None
        /\ \A i \in 1..Len(matrix) : \A j \in 1..Len(matrix[i][2]) :
               \E k \in 1..Len(Input) :
                   /\ Input[k][1] = matrix[i][2][j][1]
                   /\ Input[k][2].version = matrix[i][1]
                   /\ Input[k][2].build # None

\* C1's case: a matrix returned for an input with a release that has a build
\* number, and so a cell, and one that has none, and no cell.
C1_Witness ==
    /\ MatrixReturned
    /\ \E k \in 1..Len(Input) :
           Input[k][2].build # None /\ HasCell(matrix, Input[k][2].version, Input[k][1])
    /\ \E k \in 1..Len(Input) :
           Input[k][2].build = None /\ ~HasCell(matrix, Input[k][2].version, Input[k][1])

----------------------------------------------------------------------------
(* C8 *)

RowsNonEmpty(d) ==
    \A i \in 1..Len(d) : \E j \in 1..Len(d[i][2]) : d[i][2][j][2] # None

\* C8: every row of the matrix holds a build number that is not None, after
\* every turn of the loop (table) and in the sorted result (matrix).
C8_RowsNeverEmpty == RowsNonEmpty(table) /\ RowsNonEmpty(matrix)

\* C8's case: in the loop, after a release without a build number whose
\* version has no row, with a row in the table.
C8_Witness ==
    /\ pc = "map_loop"
    /\ table # <<>>
    /\ \E k \in 1..(Len(Input) - Len(pending)) :
           Input[k][2].build = None /\ ~DictHas(table, Input[k][2].version)

----------------------------------------------------------------------------
(* C10 *)

\* C10 as stated: the cell of an (identity, version) pair that occurs more
\* than once holds the build number of the pair's last occurrence.
C10_AsStated ==
    MatrixReturned =>
        \A k \in 1..Len(Input) :
            (/\ \E l \in 1..Len(Input) : l # k /\ SamePair(k, l)
             /\ \A l \in (k + 1)..Len(Input) : ~SamePair(k, l))
            => CellOrNone(matrix, Input[k][2].version, Input[k][1]) = Input[k][2].build

\* C10 amended: the cell of an (identity, version) pair that occurs more
\* than once holds the build number of the last occurrence of the pair that
\* has a build number.
C10_LastBuildWins ==
    MatrixReturned =>
        \A k \in 1..Len(Input) :
            (/\ Input[k][2].build # None
             /\ \E l \in 1..Len(Input) : l # k /\ SamePair(k, l)
             /\ \A l \in (k + 1)..Len(Input) :
                    SamePair(k, l) => Input[l][2].build = None)
            => CellOrNone(matrix, Input[k][2].version, Input[k][1]) = Input[k][2].build

\* C10's case: a matrix returned for an input in which a pair occurs twice
\* with two build numbers.
C10_Witness ==
    /\ MatrixReturned
    /\ \E k \in 1..Len(Input) : \E l \in (k + 1)..Len(Input) :
           /\ SamePair(k, l)
           /\ Input[k][2].build # None
           /\ Input[l][2].build # None
           /\ Input[k][2].build # Input[l][2].build

----------------------------------------------------------------------------
(* C4 *)

\* The fetched releases of the identity c, in the order fetched.
ReleasesOf(c) == SelectSeq(Releases(products), LAMBDA p : p[1] = c)

\* The list builds.json holds under c (none is an empty one).
GroupedOf(c) ==
    IF DictHas(jsonFile.content, c) THEN DictGet(jsonFile.content, c) ELSE <<>>

\* C4: for every known identity the list of the grouped view under its code
\* is the identity's input releases: as many, in the same order, each with
\* the same version, build (None too) and date (as its ISO text); and the
\* view has no other key.
C4_GroupedPreserves ==
    jsonFile.written =>
        /\ \A m \in 1..Len(IDECodeMembers) :
               LET c   == IDECodeMembers[m].name
                   in  == ReleasesOf(c)
                   out == GroupedOf(c)
               IN  /\ Len(out) = Len(in)
                   /\ \A k \in 1..Len(in) :
                          /\ out[k].version = in[k][2].version
                          /\ out[k].build = in[k][2].build
                          /\ IsIsoShape(out[k].date)
                          /\ DateFields(out[k].date) = in[k][2].date
        /\ \A i \in 1..Len(jsonFile.content) :
               /\ IsMember(jsonFile.content[i][1])
               /\ jsonFile.content[i][2] # <<>>

\* C4's case: builds.json written for an identity of two different releases,
\* one of them without a build number.
C4_Witness ==
    /\ jsonFile.written
    /\ \E m \in 1..Len(IDECodeMembers) :
           LET in == ReleasesOf(IDECodeMembers[m].name)
           IN  /\ Len(in) >= 2
               /\ in[1][2] # in[2][2]
               /\ \E k \in 1..Len(in) : in[k][2].build = None

----------------------------------------------------------------------------
(* C5 *)

CountOf(seq, code) == Cardinality({i \in 1..Len(seq) : seq[i].code = code})

\* C5 as stated: the index has exactly one entry per distinct fetched code,
\* known identity or not, and its entries ascend by code.
C5_AsStated ==
    codesFile.written =>
        /\ \A i \in 1..Len(products) : CountOf(codesFile.content, products[i].code) = 1
        /\ \A i \in 1..Len(codesFile.content) :
               CountOf(products, codesFile.content[i].code) >= 1
        /\ \A i \in 1..(Len(codesFile.content) - 1) :
               StrLess(codesFile.content[i].code, codesFile.content[i + 1].code)

\* C5 amended: the index has exactly one entry per fetched product record,
\* known identity or not (so one per distinct code when no code is fetched
\* twice, and as many entries of a code as records of it otherwise), each
\* with its record's name, and no entry is followed by one of a lesser code.
C5_OneEntryPerProduct ==
    codesFile.written =>
        /\ Len(codesFile.content) = Len(products)
        /\ \A i \in 1..Len(products) :
               /\ CountOf(codesFile.content, products[i].code)
                      = CountOf(products, products[i].code)
               /\ \E j \in 1..Len(codesFile.content) :
                      /\ codesFile.content[j].code = products[i].code
                      /\ codesFile.content[j].name = products[i].name
        /\ \A i \in 1..(Len(codesFile.content) - 1) :
               ~StrLess(codesFile.content[i + 1].code, codesFile.content[i].code)

\* C5's case: the index written for products fetched out of order, one code
\* twice, one code no known identity.
C5_Witness ==
    /\ codesFile.written
    /\ \E i \in 1..Len(products) : ~IsMember(products[i].code)
    /\ \E i \in 1..Len(products) : CountOf(products, products[i].code) = 2
    /\ \E i \in 1..(Len(products) - 1) : StrLess(products[i + 1].code, products[i].code)

----------------------------------------------------------------------------
(* C6 *)

\* C6: a fetched product of a code that is no member is no error.
\* IDECode.get answers None for it and no run ends in the KeyError of an
\* unknown code: a run that fails fails in the request, in the validation of
\* the answer or in the InvalidVersion of a release, of a build number, of a
\* known identity; no row, cell or key of the matrix and the grouped view
\* comes from it; the index has its entry.
C6_UnknownCodeIsNoError ==
    /\ \A i \in 1..Len(products) :
           ~IsMember(products[i].code) => IDECodeGet(products[i].code) = None
    /\ error.kind # "KeyError"
    /\ (pc = "failed" /\ error.kind = "InvalidVersion") =>
           \E i \in 1..Len(products) :
               /\ IsMember(products[i].code)
               /\ \E k \in 1..Len(products[i].releases) :
                      /\ products[i].releases[k].version = error.detail
                      /\ products[i].releases[k].build # None
    /\ pc = "failed" => error.kind \in {"RequestException", "ValidationError", "InvalidVersion"}
    /\ MatrixReturned =>
           \A i \in 1..Len(matrix) : \A j \in 1..Len(matrix[i][2]) :
               /\ IsMember(matrix[i][2][j][1])
               /\ \E p \in 1..Len(products) :
                      /\ products[p].code = matrix[i][2][j][1]
                      /\ \E k \in 1..Len(products[p].releases) :
                             products[p].releases[k].version = matrix[i][1]
    /\ jsonFile.written =>
           \A i \in 1..Len(jsonFile.content) : IsMember(jsonFile.content[i][1])
    /\ codesFile.written =>
           \A i \in 1..Len(products) : CountOf(codesFile.content, products[i].code) >= 1

\* C6's case: a run that is done, with a fetched product of an unknown code
\* whose release, of a build number, has a version that is none.
C6_Witness ==
    /\ pc = "done"
    /\ \E i \in 1..Len(products) :
           /\ ~IsMember(products[i].code)
           /\ \E k \in 1..Len(products[i].releases) :
                  /\ products[i].releases[k].build # None
                  /\ products[i].releases[k].version = V_latest

----------------------------------------------------------------------------
(* C7 *)

\* C7 as stated: a run that has ended in a fatal error has written none of
\* the three files.
C7_AllOrNothing ==
    pc = "failed" =>
        ~codesFile.written /\ ~tableFile.written /\ ~jsonFile.written

----------------------------------------------------------------------------
(* C9 *)

\* C9: the frame of build-numbers.md has the columns Version and the member
\* names in declaration order, and one row per row of the matrix, in the
\* matrix's order: the version, then per member the matrix's build number
\* for (version, member), None where the matrix has no such cell.
C9_TableOfMatrix ==
    tableFile.written =>
        LET frame == tableFile.content.table
        IN  /\ Len(frame.columns) = 1 + Len(IDECodeMembers)
            /\ frame.columns[1] = "Version"
            /\ \A j \in 1..Len(IDECodeMembers) :
                   frame.columns[j + 1] = IDECodeMembers[j].name
            /\ Len(frame.rows) = Len(matrix)
            /\ \A i \in 1..Len(matrix) :
                   /\ Len(frame.rows[i]) = 1 + Len(IDECodeMembers)
                   /\ frame.rows[i][1] = matrix[i][1]
                   /\ \A j \in 1..Len(IDECodeMembers) :
                          frame.rows[i][j + 1]
                              = CellOrNone(matrix, matrix[i][1], IDECodeMembers[j].name)

\* C9's case: the file written for a matrix of two rows at least, a row with
\* a build number and a blank.
C9_Witness ==
    /\ tableFile.written
    /\ Len(matrix) >= 2
    /\ \E i \in 1..Len(matrix) :
           /\ \E j \in 1..Len(IDECodeMembers) :
                  tableFile.content.table.rows[i][j + 1] # None
           /\ \E j \in 1..Len(IDECodeMembers) :
                  tableFile.content.table.rows[i][j + 1] = None

----------------------------------------------------------------------------
(* C2 *)

\* Whether s is dot-separated segments, each a non-negative integer.
IsDottedNumeric(s) ==
    LET seg == Split(s, ".")
    IN  \A i \in 1..Len(seg) : seg[i] # <<>> /\ AllDigits(seg[i])

\* The segments of a dotted-numeric s as integers.
Segments(s) ==
    LET seg == Split(s, ".") IN [i \in 1..Len(seg) |-> IntOf(seg[i])]

AllDottedNumeric ==
    \A k \in 1..Len(Input) : IsDottedNumeric(Input[k][2].version)

\* Where the key v is in the table, in insertion order.
InsertedAt(v) == CHOOSE i \in 1..Len(table) : table[i][1] = v

\* C2 as stated: for an input of dotted-numeric versions alone, each row of
\* the matrix returned is strictly above the next, their segments compared
\* as integers.
C2_AsStated ==
    (MatrixReturned /\ AllDottedNumeric) =>
        \A i \in 1..(Len(matrix) - 1) :
            TupleLess(Segments(matrix[i + 1][1]), Segments(matrix[i][1]))

\* C2 amended: for an input of dotted-numeric versions alone, no row of the
\* matrix returned is below the next, their segments compared as integers
\* and trailing zero segments left out; two adjacent rows are different
\* strings, and compare equal only as two spellings of one version
\* (2024.1, 2024.01, 2024.1.0), which stay in their order of insertion.
C2_Descending ==
    (MatrixReturned /\ AllDottedNumeric) =>
        \A i \in 1..(Len(matrix) - 1) :
            LET v1 == matrix[i][1]
                v2 == matrix[i + 1][1]
                n1 == StripTrailingZeros(Segments(v1))
                n2 == StripTrailingZeros(Segments(v2))
            IN  /\ ~TupleLess(n1, n2)
                /\ v1 # v2
                /\ n1 = n2 => InsertedAt(v1) < InsertedAt(v2)

\* C2's case: a matrix returned with 2024.10 right above 2024.9, which was
\* inserted first.
C2_Witness ==
    /\ MatrixReturned
    /\ AllDottedNumeric
    /\ \E i \in 1..(Len(matrix) - 1) :
           /\ matrix[i][1] = V_2024_10
           /\ matrix[i + 1][1] = V_2024_9
           /\ InsertedAt(V_2024_9) < InsertedAt(V_2024_10)

----------------------------------------------------------------------------
(* C3 *)

\* s without a leading "v".
WithoutV(s) == IF s # <<>> /\ s[1] = "v" THEN Tail(s) ELSE s

\* s without the pre-release suffix it ends in: an "a", a "." before it or
\* not, a "." after it or not, digits or none.
WithoutPre(s) ==
    IF \E p \in 1..Len(s) : s[p] = "a"
    THEN LET p    == CHOOSE p \in 1..Len(s) :
                         s[p] = "a" /\ \A q \in (p + 1)..Len(s) : s[q] # "a"
             rest == SubSeq(s, p + 1, Len(s))
             num  == IF rest # <<>> /\ rest[1] = "." THEN Tail(rest) ELSE rest
             head == SubSeq(s, 1, p - 1)
         IN  IF AllDigits(num)
             THEN (IF head # <<>> /\ head[Len(head)] = "."
                   THEN SubSeq(head, 1, Len(head) - 1) ELSE head)
             ELSE s
    ELSE s

\* Whether s, of digits, "." and the letters a, e, l, s, t, v, is a PEP 440
\* version: dotted-numeric once a leading v and a pre-release suffix are
\* taken off.
IsPep440(s) == IsDottedNumeric(WithoutPre(WithoutV(s)))

====
